---- MODULE Spec2Model ----
(***************************************************************************)
(* Model of the dynamic form renderer (src/src/fragments/formRenderer.tsx) *)
(* and of the in-memory form store (src/src/app/page.tsx).                 *)
(*                                                                         *)
(* JavaScript values are tagged records; strings are sequences of          *)
(* one-character strings so that trimming, numeric coercion and the        *)
(* regular expressions of the source are computed, not assumed.            *)
(***************************************************************************)
EXTENDS Integers, Sequences, FiniteSets, TLC

(***************************************************************************)
(* JavaScript values                                                       *)
(***************************************************************************)
Undef == [k |-> "undef", s |-> <<>>, n |-> 0, b |-> FALSE]
Null == [k |-> "null", s |-> <<>>, n |-> 0, b |-> FALSE]
NaN == [k |-> "nan", s |-> <<>>, n |-> 0, b |-> FALSE]
Str(s) == [k |-> "str", s |-> s, n |-> 0, b |-> FALSE]
Num(n) == [k |-> "num", s |-> <<>>, n |-> n, b |-> FALSE]
Bool(b) == [k |-> "bool", s |-> <<>>, n |-> 0, b |-> b]

EmptyStr == Str(<<>>)

\* JavaScript truthiness: undefined, null, NaN, 0, "" and false are falsy.
Truthy(v) ==
    CASE v.k = "str" -> v.s # <<>>
      [] v.k = "num" -> v.n # 0
      [] v.k = "bool" -> v.b
      [] OTHER -> FALSE

\* a || b
OrElse(a, b) == IF Truthy(a) THEN a ELSE b

Digits == {"0", "1", "2", "3", "4", "5", "6", "7", "8", "9"}
Letters == {"a", "b", "c", "d", "e", "h", "n", "o", "s"}
WhiteSpace == {" "}

DigitVal(c) ==
    CASE c = "0" -> 0 [] c = "1" -> 1 [] c = "2" -> 2 [] c = "3" -> 3
      [] c = "4" -> 4 [] c = "5" -> 5 [] c = "6" -> 6 [] c = "7" -> 7
      [] c = "8" -> 8 [] c = "9" -> 9

RECURSIVE TrimStart(_)
TrimStart(s) ==
    IF s # <<>> /\ Head(s) \in WhiteSpace THEN TrimStart(Tail(s)) ELSE s

RECURSIVE TrimEnd(_)
TrimEnd(s) ==
    IF s # <<>> /\ s[Len(s)] \in WhiteSpace
    THEN TrimEnd(SubSeq(s, 1, Len(s) - 1))
    ELSE s

\* String.prototype.trim
Trim(s) == TrimEnd(TrimStart(s))

RECURSIVE DecimalValue(_)
DecimalValue(s) ==
    IF s = <<>> THEN 0
    ELSE 10 * DecimalValue(SubSeq(s, 1, Len(s) - 1)) + DigitVal(s[Len(s)])

AllDigits(s) == \A i \in 1..Len(s) : s[i] \in Digits

\* Number(string): surrounding white space is ignored, the empty string is 0,
\* an optionally signed run of decimal digits is its value, anything else is
\* NaN.  (Fractions, exponents, hexadecimal and Infinity are not among the
\* inputs of this model.)
StringToNumber(s) ==
    LET t == Trim(s) IN
    IF t = <<>> THEN Num(0)
    ELSE IF Head(t) \in {"+", "-"}
         THEN IF Len(t) > 1 /\ AllDigits(Tail(t))
              THEN Num(IF Head(t) = "-" THEN 0 - DecimalValue(Tail(t))
                       ELSE DecimalValue(Tail(t)))
              ELSE NaN
         ELSE IF AllDigits(t) THEN Num(DecimalValue(t)) ELSE NaN

\* Number(value)
ToNumber(v) ==
    CASE v.k = "num" -> v
      [] v.k = "str" -> StringToNumber(v.s)
      [] v.k = "bool" -> Num(IF v.b THEN 1 ELSE 0)
      [] v.k = "null" -> Num(0)
      [] OTHER -> NaN

\* x > bound for a JavaScript number x; every comparison with NaN is false.
NumGreater(x, bound) == x.k = "num" /\ x.n > bound

\* JSON.parse(JSON.stringify(value)): NaN becomes null; a property whose
\* value is undefined is dropped, which Undef already stands for.
Json(v) == IF v.k = "nan" THEN Null ELSE v

(***************************************************************************)
(* Regular expressions of the source, as sets of positions reached         *)
(***************************************************************************)
\* positions after an optional character of class cls
OptChar(s, P, cls) ==
    P \cup {p + 1 : p \in {q \in P : q <= Len(s) /\ s[q] \in cls}}

\* positions after exactly n digits
DigitRun(s, P, n) ==
    {p + n : p \in {q \in P : q + n - 1 <= Len(s)
                               /\ \A i \in q..(q + n - 1) : s[i] \in Digits}}

\* /^[\+]?[(]?[0-9]{3}[)]?[-\s\.]?[0-9]{3}[-\s\.]?[0-9]{4,6}$/
PhoneRegex(s) ==
    LET p1 == OptChar(s, {1}, {"+"})
        p2 == OptChar(s, p1, {"("})
        p3 == DigitRun(s, p2, 3)
        p4 == OptChar(s, p3, {")"})
        p5 == OptChar(s, p4, {"-", " ", "."})
        p6 == DigitRun(s, p5, 3)
        p7 == OptChar(s, p6, {"-", " ", "."})
        p8 == DigitRun(s, p7, 4) \cup DigitRun(s, p7, 5) \cup DigitRun(s, p7, 6)
    IN  (Len(s) + 1) \in p8

\* [^\s@]+ over s[from..to]
NoSpaceAt(s, from, to) ==
    /\ from <= to
    /\ \A i \in from..to : s[i] \notin (WhiteSpace \cup {"@"})

\* /^[^\s@]+@[^\s@]+\.[^\s@]+$/
EmailRegex(s) ==
    \E i \in 1..Len(s) : \E j \in 1..Len(s) :
        /\ i < j
        /\ s[i] = "@"
        /\ s[j] = "."
        /\ NoSpaceAt(s, 1, i - 1)
        /\ NoSpaceAt(s, i + 1, j - 1)
        /\ NoSpaceAt(s, j + 1, Len(s))

\* zod's z.string().email(): one "@"; the local part is made of letters,
\* digits and _ ' + - . with no leading dot, no two dots in a row and no dot
\* right before the "@"; the domain is dot-separated labels that start with
\* a letter or digit, and ends in a label of at least two letters.
ZodEmail(s) ==
    LET alnum == Letters \cup Digits
        localCls == alnum \cup {"_", "'", "+", "-", "."}
    IN  \E i \in 1..Len(s) :
          /\ s[i] = "@"
          /\ i > 1
          /\ \A p \in 1..(i - 1) : s[p] \in localCls
          /\ s[1] # "."
          /\ s[i - 1] # "."
          /\ \A p \in 1..(Len(s) - 1) : ~(s[p] = "." /\ s[p + 1] = ".")
          /\ i < Len(s)
          /\ \A p \in (i + 1)..Len(s) : s[p] \in (alnum \cup {"-", "."})
          /\ s[i + 1] \in alnum
          /\ \A p \in (i + 1)..Len(s) : s[p] = "." => p < Len(s) /\ s[p + 1] \in alnum
          /\ \E d \in (i + 2)..(Len(s) - 2) :
                /\ s[d] = "."
                /\ \A p \in (d + 1)..Len(s) : s[p] \in Letters

(***************************************************************************)
(* Field descriptors and maps keyed by field name                          *)
(***************************************************************************)
\* A FormField: label "" stands for no label; extra stands for the
\* attributes the form never reads (placeholder, description, rowIndex,
\* variant, checked, disabled).
Field(name, type, label, required, value, extra) ==
    [name |-> name, type |-> type, label |-> label, required |-> required,
     value |-> value, extra |-> extra]

EmptyMap == [x \in {} |-> Undef]

\* obj[key], undefined when the key is missing
Get(obj, key) == IF key \in DOMAIN obj THEN obj[key] ELSE Undef

\* obj[key] = v
Put(obj, key, v) == (key :> v) @@ obj

\* delete obj[key]
Unset(obj, key) == [x \in (DOMAIN obj) \ {key} |-> obj[x]]

Names(fields) == {fields[i].name : i \in 1..Len(fields)}

(***************************************************************************)
(* Schema Builder                                                          *)
(***************************************************************************)
Rule(base, optional, min, max, subject, custom) ==
    [base |-> base, optional |-> optional, min |-> min, max |-> max,
     subject |-> subject, custom |-> custom]

AgeMax == 120
NumberMax == 100
NumberMin == 1

ContactRule == Rule("contact", FALSE, 0, 0, "", TRUE)

\* the validator the switch on field.type selects
Validator(field) ==
    CASE field.type = "email" ->
            Rule("email", ~field.required, 0, 0, "", TRUE)
      [] field.type = "number" ->
            IF field.name = "age"
            THEN Rule("number", ~field.required, NumberMin, AgeMax, "",
                      field.required)
            ELSE Rule("number", ~field.required, NumberMin, NumberMax, "",
                      FALSE)
      [] field.type = "tel" ->
            Rule("tel", ~field.required, 0, 0, "", TRUE)
      [] field.type = "checkbox" ->
            Rule("boolean", TRUE, 0, 0, "", FALSE)
      [] OTHER ->
            IF field.required
            THEN Rule("trimmed", FALSE, 1, 0,
                      IF field.label # "" THEN field.label ELSE field.name,
                      TRUE)
            ELSE Rule("string", TRUE, 0, 0, "", FALSE)

RECURSIVE SchemaFields(_, _)
SchemaFields(fields, acc) ==
    IF fields = <<>> THEN acc
    ELSE SchemaFields(Tail(fields),
                      Put(acc, Head(fields).name, Validator(Head(fields))))

\* createValidationSchema, were the contact rule stored before the loop
createValidationSchemaContactFirst(fields) ==
    SchemaFields(fields, Put(EmptyMap, "contact", ContactRule))

createValidationSchema(fields) ==
    Put(SchemaFields(fields, EmptyMap), "contact", ContactRule)

(***************************************************************************)
(* zod: parsing one value with one rule                                    *)
(***************************************************************************)
Ok(out) == [ok |-> TRUE, out |-> out, msg |-> ""]
Fail(msg) == [ok |-> FALSE, out |-> Undef, msg |-> msg]

\* z.string() on a value that is not a string
NotAString(v) ==
    Fail(IF v.k = "undef" THEN "Required" ELSE "Expected string")

ParseNumber(rule, v) ==
    LET x == ToNumber(v) IN
    IF x.k # "num"
    THEN Fail(IF rule.custom THEN "Age must be a number"
              ELSE "Expected number, received nan")
    ELSE IF x.n < rule.min
    THEN Fail(IF rule.custom THEN "Age must be at least 1"
              ELSE "Number must be greater than or equal to 1")
    ELSE IF x.n > rule.max
    THEN Fail(IF rule.custom THEN "Age must be less than 120"
              ELSE "Number must be less than or equal to max")
    ELSE Ok(x)

ParseString(rule, v) ==
    IF v.k # "str" THEN NotAString(v)
    ELSE CASE rule.base = "email" ->
                IF ZodEmail(v.s) THEN Ok(v) ELSE Fail("Invalid email format")
           [] rule.base = "tel" ->
                IF PhoneRegex(v.s) THEN Ok(v)
                ELSE Fail("Invalid phone number format")
           [] rule.base = "trimmed" ->
                IF Len(Trim(v.s)) >= rule.min THEN Ok(Str(Trim(v.s)))
                ELSE Fail("is required")
           [] rule.base = "contact" ->
                IF EmailRegex(v.s) \/ PhoneRegex(v.s) THEN Ok(v)
                ELSE Fail("Please enter a valid email or phone number")
           [] OTHER -> Ok(v)

\* rule.safeParse(v): .optional() lets undefined through unparsed
SafeParse(rule, v) ==
    IF rule.optional /\ v.k = "undef" THEN Ok(Undef)
    ELSE CASE rule.base = "number" -> ParseNumber(rule, v)
           [] rule.base = "boolean" ->
                IF v.k = "bool" THEN Ok(v)
                ELSE Fail(IF v.k = "undef" THEN "Required"
                          ELSE "Expected boolean")
           [] OTHER -> ParseString(rule, v)

\* zodResolver(schema)(values): the errors by field name and, when there is
\* none, the parsed output (keys of the schema only, undefined ones left out)
Resolver(schema, vals) ==
    LET res == [nm \in DOMAIN schema |-> SafeParse(schema[nm], Get(vals, nm))]
        bad == {nm \in DOMAIN schema : ~res[nm].ok}
        present == {nm \in DOMAIN schema : res[nm].out.k # "undef"}
    IN  [errors |-> [nm \in bad |-> res[nm].msg],
         values |-> IF bad = {} THEN [nm \in present |-> res[nm].out]
                    ELSE EmptyMap]

(***************************************************************************)
(* Default Value Deriver                                                   *)
(***************************************************************************)
RECURSIVE ReduceDefaults(_, _)
ReduceDefaults(fields, acc) ==
    IF fields = <<>> THEN acc
    ELSE ReduceDefaults(
            Tail(fields),
            Put(acc, Head(fields).name,
                IF Head(fields).type = "checkbox"
                THEN Bool(Truthy(Head(fields).value))
                ELSE OrElse(Head(fields).value, EmptyStr)))

\* formFields is undefined until the first fetch succeeds
NoFields == <<>>

defaultValues(formFields, loaded) ==
    IF ~loaded THEN EmptyMap ELSE ReduceDefaults(formFields, EmptyMap)

validationSchema(formFields, loaded) ==
    IF loaded THEN createValidationSchema(formFields) ELSE EmptyMap

\* updatedFields, were the parsed data not merged into the descriptors
updatedFieldsUnmerged(formFields, data) == formFields

\* onSubmit's updatedFields
updatedFields(formFields, data) ==
    [i \in 1..Len(formFields) |->
        [formFields[i] EXCEPT !.value = Get(data, formFields[i].name)]]

\* const showPhoneEmail = age && Number(age) > 18
AdultAge == 18

\* showPhoneEmail, were the comparison Number(age) >= 18
showPhoneEmailFrom18(vals) ==
    LET age == Get(vals, "age") IN
    Truthy(age) /\ NumGreater(ToNumber(age), AdultAge - 1)

showPhoneEmail(vals) ==
    LET age == Get(vals, "age") IN
    Truthy(age) /\ NumGreater(ToNumber(age), AdultAge)

(***************************************************************************)
(* Inputs and bounds                                                       *)
(***************************************************************************)
\* user events (edits, resets, submit clicks) of one session
MaxUserEvents == 3
\* handleSubmit calls whose resolver has not settled yet
MaxValidating == 2

sBlankA == <<" ", "a", " ">>
s19 == <<"1", "9">>
s121 == <<"1", "2", "1">>
sMail == <<"a", "@", "b", ".", "c", "o">>
sPhone == <<"5", "5", "5", "-", "1", "2", "3", "-", "4", "5", "6", "7">>

\* what the user types into a text control
InputStrings == {<<>>, sBlankA, s19, s121, sMail, sPhone}

\* the list src/src/app/page.tsx starts with
PageFields ==
    << Field("Username", "text", "", TRUE, EmptyStr, "Input0"),
       Field("age", "number", "Age", TRUE, Num(18), "Input1"),
       Field("terms_001", "checkbox", "Agree to terms", TRUE, Undef,
             "Checkbox2") >>

\* the same form once a name and an adult age were stored
FilledFields ==
    << Field("Username", "text", "", TRUE, Str(sBlankA), "Input0"),
       Field("age", "number", "Age", TRUE, Num(19), "Input1") >>

\* a stored list that itself has a descriptor named contact
ContactFields ==
    << Field("contact", "tel", "Phone", FALSE, Str(sPhone), "Input0"),
       Field("age", "number", "", FALSE, Num(19), "Input1") >>

Catalog == {PageFields, FilledFields, ContactFields}

(***************************************************************************)
(* State                                                                   *)
(***************************************************************************)
VARIABLES
    store,            \* page.tsx: the module-level formFields of the API
    formFields,       \* useQuery data (NoFields while not loaded)
    loaded,           \* useQuery data is defined
    queryStatus,      \* useQuery status: "pending", "success", "error"
    fetching,         \* a GET /api/form is in flight
    failureCount,     \* failed attempts of the fetch in flight
    gets,             \* GET requests issued so far
    values,           \* Live Value Map: the form values of useForm
    errors,           \* formState.errors: field name -> message
    interactionCount, \* useState interactionCount
    validating,       \* handleSubmit calls awaiting their resolver
    requests,         \* POST /api/form requests in flight
    posts,            \* mutation.mutate calls so far (the last one's id)
    mutationStatus,   \* status of the mutation the observer tracks
    toasts,           \* notifications emitted: [success, error]
    userEvents,       \* user events so far
    last,             \* the handler that ran last
    pure              \* the pure functions applied to one descriptor list

formVars == <<values, errors, interactionCount>>
queryVars == <<formFields, loaded, queryStatus, fetching, failureCount, gets>>
mutationVars == <<requests, posts, mutationStatus, toasts>>
sessionVars == <<store, formFields, loaded, queryStatus, fetching,
                 failureCount, gets, values, errors, interactionCount,
                 validating, requests, posts, mutationStatus, toasts,
                 userEvents, last>>
vars == <<sessionVars, pure>>

\* retry: 2
Retry == 2

\* the form is rendered: neither "Loading form..." nor "Error loading form"
Ready == queryStatus = "success"

\* the control rendered for name is the checkbox input
IsCheckbox(fields, name) ==
    /\ name # "contact"
    /\ \E i \in 1..Len(fields) :
          fields[i].name = name /\ fields[i].type = "checkbox"

\* formFields.map(field => field.name !== 'contact' && ...)
RenderedFromList ==
    IF ~Ready THEN {}
    ELSE {nm \in Names(formFields) : nm # "contact"}

\* {showPhoneEmail && ...}: the synthetic contact control
RenderedContact == Ready /\ showPhoneEmail(values)

\* the names of the controls the render shows
Rendered ==
    RenderedFromList \cup (IF RenderedContact THEN {"contact"} ELSE {})

\* the rendered controls that print errors[name] under the input
ShowsError(name) ==
    /\ name \in Rendered
    /\ name \in DOMAIN errors
    /\ ~IsCheckbox(formFields, name)

\* JSON.parse(JSON.stringify(list))
JsonFields(fields) ==
    [i \in 1..Len(fields) |-> [fields[i] EXCEPT !.value = Json(fields[i].value)]]

\* no descriptor list under test
PureIdle ==
    [stage |-> "idle", fields |-> <<>>, defaults |-> EmptyMap,
     schema |-> EmptyMap, name |-> "", input |-> Undef, result |-> Ok(Undef)]

\* the Form component right after it mounted
Mounted ==
    /\ formFields = NoFields
    /\ loaded = FALSE
    /\ queryStatus = "pending"
    /\ fetching = TRUE
    /\ failureCount = 0
    /\ gets = 1
    /\ values = EmptyMap
    /\ errors = EmptyMap
    /\ interactionCount = EmptyMap
    /\ validating = <<>>
    /\ requests = {}
    /\ posts = 0
    /\ mutationStatus = "idle"
    /\ toasts = [success |-> 0, error |-> 0]
    /\ userEvents = 0
    /\ last = "mount"

Init ==
    /\ store \in Catalog
    /\ pure = PureIdle
    /\ Mounted

(***************************************************************************)
(* useQuery                                                                *)
(***************************************************************************)
\* GET /api/form answers with the store; useForm's values prop resets the
\* form when the derived defaults differ from the previous ones
FetchOk ==
    /\ fetching
    /\ LET data == JsonFields(store)
           old == defaultValues(formFields, loaded)
           new == defaultValues(data, TRUE)
       IN  /\ formFields' = data
           /\ IF new # old
              THEN values' = new /\ errors' = EmptyMap
              ELSE UNCHANGED <<values, errors>>
    /\ loaded' = TRUE
    /\ queryStatus' = "success"
    /\ fetching' = FALSE
    /\ failureCount' = 0
    /\ last' = "fetchOk"
    /\ UNCHANGED <<store, gets, interactionCount, validating, requests, posts,
                   mutationStatus, toasts, userEvents, pure>>

\* fetchFormFields throws: retried up to Retry times, then isError
FetchFail ==
    /\ fetching
    /\ IF failureCount < Retry
       THEN /\ failureCount' = failureCount + 1
            /\ gets' = gets + 1
            /\ UNCHANGED <<fetching, queryStatus>>
       ELSE /\ fetching' = FALSE
            /\ queryStatus' = "error"
            /\ UNCHANGED <<failureCount, gets>>
    /\ last' = "fetchFail"
    /\ UNCHANGED <<store, formFields, loaded, values, errors, interactionCount,
                   validating, requests, posts, mutationStatus, toasts,
                   userEvents, pure>>

(***************************************************************************)
(* The form                                                                *)
(***************************************************************************)
\* trackInteraction
trackInteraction(count, fieldName) ==
    Put(count, fieldName,
        (IF fieldName \in DOMAIN count THEN count[fieldName] ELSE 0) + 1)

\* mode: 'onChange': the changed field's error is set or cleared
ChangeErrors(errs, schema, name, v) ==
    LET r == SafeParse(schema[name], v) IN
    IF r.ok THEN Unset(errs, name) ELSE Put(errs, name, r.msg)

\* onChange of a rendered control
Change(name, v) ==
    /\ Ready
    /\ userEvents < MaxUserEvents
    /\ name \in Rendered
    /\ values' = Put(values, name, v)
    /\ errors' = ChangeErrors(errors, validationSchema(formFields, loaded),
                              name, v)
    /\ interactionCount' = trackInteraction(interactionCount, name)
    /\ userEvents' = userEvents + 1
    /\ last' = "change"
    /\ UNCHANGED <<store, queryVars, validating, mutationVars, pure>>

\* a text control reports e.target.value
ChangeText ==
    \E name \in Rendered : \E s \in InputStrings :
        /\ ~IsCheckbox(formFields, name)
        /\ Change(name, Str(s))

\* a checkbox reports e.target.checked
ChangeCheckbox ==
    \E name \in Rendered :
        /\ IsCheckbox(formFields, name)
        /\ Change(name, Bool(~Truthy(Get(values, name))))

\* ResetForm, were the entries missing from the argument kept
ResetFormKeeping(vals) == [values |-> vals @@ values, errors |-> EmptyMap]

\* reset(values) of react-hook-form: the form values become a copy of the
\* argument and the errors are cleared
ResetForm(vals) == [values |-> vals, errors |-> EmptyMap]

handleReset ==
    /\ Ready
    /\ userEvents < MaxUserEvents
    /\ values' = ResetForm(defaultValues(formFields, loaded)).values
    /\ errors' = ResetForm(defaultValues(formFields, loaded)).errors
    /\ interactionCount' = EmptyMap
    /\ userEvents' = userEvents + 1
    /\ last' = "reset"
    /\ UNCHANGED <<store, queryVars, validating, mutationVars, pure>>

\* disabled={mutation.isPending}
SubmitDisabled == mutationStatus = "pending"

\* the submit event: handleSubmit(onSubmit) starts the resolver on the
\* current form values and awaits it
SubmitClick ==
    /\ Ready
    /\ ~SubmitDisabled
    /\ userEvents < MaxUserEvents
    /\ Len(validating) < MaxValidating
    /\ validating' = Append(validating,
                            [vals |-> values, fields |-> formFields])
    /\ userEvents' = userEvents + 1
    /\ last' = "submit"
    /\ UNCHANGED <<store, queryVars, formVars, mutationVars, pure>>

\* Blocked, were the error of the synthetic contact field not counted
BlockedIgnoringContact(errs) == (DOMAIN errs) \ {"contact"} # {}

\* handleSubmit calls onValid only when the resolver reported no error
Blocked(errs) == DOMAIN errs # {}

\* mutation.mutate(body): a new mutation starts, the observer tracks it
Mutate(body) ==
    /\ posts' = posts + 1
    /\ requests' = requests \cup
                     {[id |-> posts + 1, body |-> JsonFields(body),
                       applied |-> FALSE]}
    /\ mutationStatus' = "pending"

\* the resolver settles: errors are stored; onSubmit runs if there is none
SubmitResolve ==
    /\ validating # <<>>
    /\ LET call == Head(validating)
           res == Resolver(createValidationSchema(call.fields), call.vals)
       IN  /\ errors' = res.errors
           /\ IF Blocked(res.errors)
              THEN UNCHANGED <<requests, posts, mutationStatus>>
              ELSE Mutate(updatedFields(call.fields, res.values))
    /\ validating' = Tail(validating)
    /\ last' = "resolve"
    /\ UNCHANGED <<store, queryVars, values, interactionCount, toasts,
                   userEvents, pure>>

(***************************************************************************)
(* POST /api/form                                                          *)
(***************************************************************************)
\* handler, req.method === "POST": formFields = req.body
handlerPost ==
    \E r \in requests :
        /\ ~r.applied
        /\ store' = r.body
        /\ requests' = (requests \ {r}) \cup {[r EXCEPT !.applied = TRUE]}
        /\ last' = "post"
        /\ UNCHANGED <<queryVars, formVars, validating, posts, mutationStatus,
                       toasts, userEvents, pure>>

\* the status the observer shows after mutation id settled
Settle(id, status) == IF id = posts THEN status ELSE mutationStatus

\* response.ok: onSuccess invalidates the query (it refetches) and toasts
MutationSuccess ==
    \E r \in requests :
        /\ r.applied
        /\ requests' = requests \ {r}
        /\ mutationStatus' = Settle(r.id, "success")
        /\ fetching' = TRUE
        /\ failureCount' = 0
        /\ gets' = gets + 1
        /\ toasts' = [toasts EXCEPT !.success = @ + 1]
        /\ last' = "success"
        /\ UNCHANGED <<store, formFields, loaded, queryStatus, formVars,
                       validating, posts, userEvents, pure>>

\* the request or its response is lost: onError toasts
MutationError ==
    \E r \in requests :
        /\ requests' = requests \ {r}
        /\ mutationStatus' = Settle(r.id, "error")
        /\ toasts' = [toasts EXCEPT !.error = @ + 1]
        /\ last' = "error"
        /\ UNCHANGED <<store, queryVars, formVars, validating, posts,
                       userEvents, pure>>

Next ==
    \/ FetchOk
    \/ FetchFail
    \/ ChangeText
    \/ ChangeCheckbox
    \/ handleReset
    \/ SubmitClick
    \/ SubmitResolve
    \/ handlerPost
    \/ MutationSuccess
    \/ MutationError

Spec == Init /\ [][Next]_vars

(***************************************************************************)
(* The pure functions on their own: one descriptor list is drawn, the     *)
(* Default Value Deriver and the Schema Builder are applied to it, then    *)
(* single values are parsed with the rules built.                          *)
(***************************************************************************)
MaxPureLen == 2

PureNames == {"age", "score", "contact"}

\* type, required, value
PureShapes ==
    { <<"number", TRUE, Undef>>, <<"number", FALSE, Undef>>,
      <<"number", FALSE, Num(0)>>, <<"number", TRUE, Num(18)>>,
      <<"text", TRUE, Str(sBlankA)>>, <<"text", FALSE, Bool(FALSE)>>,
      <<"checkbox", TRUE, Undef>>, <<"checkbox", FALSE, Bool(TRUE)>>,
      <<"email", FALSE, Str(sMail)>>, <<"tel", TRUE, Str(sPhone)>>,
      <<"date", TRUE, EmptyStr>> }

PureDescriptors ==
    {Field(n, sh[1], "", sh[2], sh[3], "x") : n \in PureNames, sh \in PureShapes}

\* the lists of at most MaxPureLen descriptors with distinct names
PureLists ==
    UNION {{l \in [1..len -> PureDescriptors] :
                \A i \in 1..len : \A j \in 1..len :
                    i # j => l[i].name # l[j].name}
           : len \in 1..MaxPureLen}

ProbeValues ==
    {Undef, EmptyStr, Str(sBlankA), Str(s19), Str(s121), Str(sMail),
     Str(sPhone), Num(0), Num(1), Num(100), Num(101), Num(120), Num(121),
     Bool(TRUE), Bool(FALSE)}

InitPure ==
    /\ store = PageFields
    /\ pure \in {[PureIdle EXCEPT !.stage = "input", !.fields = l] :
                    l \in PureLists}
    /\ Mounted

\* defaultValues on the list
PureDerive ==
    /\ pure.stage = "input"
    /\ pure' = [pure EXCEPT !.stage = "derived",
                            !.defaults = defaultValues(pure.fields, TRUE)]
    /\ UNCHANGED sessionVars

\* createValidationSchema on the list
PureBuild ==
    /\ pure.stage = "derived"
    /\ pure' = [pure EXCEPT !.stage = "built",
                            !.schema = createValidationSchema(pure.fields)]
    /\ UNCHANGED sessionVars

\* one rule of the schema on one value
PureParse ==
    /\ pure.stage = "built"
    /\ \E nm \in DOMAIN pure.schema :
         \E v \in ProbeValues \cup {Get(pure.defaults, nm)} :
            pure' = [pure EXCEPT !.stage = "parsed", !.name = nm, !.input = v,
                                 !.result = SafeParse(pure.schema[nm], v)]
    /\ UNCHANGED sessionVars

NextPure ==
    \/ PureDerive
    \/ PureBuild
    \/ PureParse

SpecPure == InitPure /\ [][NextPure]_vars

(***************************************************************************)
(* Properties                                                              *)
(***************************************************************************)
\* the rules of the submit call's ruleset that reject their entry
RejectedNames(call) ==
    LET schema == createValidationSchema(call.fields) IN
    {nm \in DOMAIN schema : ~SafeParse(schema[nm], Get(call.vals, nm)).ok}

\* C1: a submit attempt in which some rule of the ruleset (a descriptor's or
\* the synthetic contact rule) rejects its Live Value Map entry starts no
\* REPLACE call (no request, the mutation does not become pending), and
\* neither the submit event nor the settled validation changes the Live
\* Value Map.
C1_InvalidSubmitBlocksPersistence ==
    [][ /\ last' = "submit" => values' = values /\ requests' = requests
                               /\ posts' = posts
        /\ (last' = "resolve" /\ validating # <<>>
            /\ RejectedNames(Head(validating)) # {})
           => /\ posts' = posts
              /\ requests' = requests
              /\ mutationStatus' = mutationStatus
              /\ values' = values ]_vars

\* a submit was blocked while an edited, valid entry is kept in the form
C1_Witness ==
    /\ last = "resolve"
    /\ posts = 0
    /\ DOMAIN errors # {}
    /\ \E nm \in DOMAIN interactionCount :
          nm \notin DOMAIN errors /\ Get(values, nm) # Undef

\* the request the step has started
NewRequests == {r \in requests' : r \notin requests}

\* the value onSubmit stores for a descriptor: the validated form of the
\* Live Value Map entry
ValidatedEntry(field, v) ==
    IF field.name = "contact" THEN v
    ELSE IF field.type = "number" THEN ToNumber(v)
    ELSE IF field.type \in {"email", "tel", "checkbox"} THEN v
    ELSE IF field.required THEN Str(Trim(v.s))
    ELSE v

\* C2 as stated: a submit that passes validation starts exactly one REPLACE
\* call whose list has the length, names, order and non-value attributes of
\* the fetched list and in which every value equals the Live Value Map entry
\* of that name; the store then holds exactly that list.
C2_BodyEqualsLiveValues ==
    [][ (last' = "resolve" /\ validating # <<>>
         /\ RejectedNames(Head(validating)) = {})
        => LET call == Head(validating) IN
           /\ posts' = posts + 1
           /\ Cardinality(NewRequests) = 1
           /\ \A r \in NewRequests :
                 /\ Len(r.body) = Len(call.fields)
                 /\ \A i \in 1..Len(call.fields) :
                       r.body[i] = [call.fields[i] EXCEPT
                           !.value = Get(call.vals, call.fields[i].name)] ]_vars

\* C2 amended: the same, but every value is the validated form of the Live
\* Value Map entry (the number for a number field, the trimmed string for a
\* required text field, the entry itself otherwise); the list has an entry
\* named contact only where the fetched list has one, and handling the
\* request makes the store exactly that list.
C2_BodyIsValidatedMerge ==
    [][ /\ (last' = "resolve" /\ validating # <<>>
            /\ RejectedNames(Head(validating)) = {})
           => LET call == Head(validating) IN
              /\ posts' = posts + 1
              /\ requests \subseteq requests'
              /\ Cardinality(NewRequests) = 1
              /\ \A r \in NewRequests :
                    /\ Len(r.body) = Len(call.fields)
                    /\ \A i \in 1..Len(call.fields) :
                          /\ r.body[i] = [call.fields[i] EXCEPT
                                !.value = r.body[i].value]
                          /\ r.body[i].value =
                                ValidatedEntry(call.fields[i],
                                    Get(call.vals, call.fields[i].name))
        /\ last' = "post"
           => \E r \in requests : ~r.applied /\ store' = r.body ]_vars

\* the store was replaced by a merged list that differs from the fetched one
C2_Witness ==
    /\ last = "post"
    /\ Ready
    /\ \E r \in requests : r.applied /\ store = r.body
    /\ store # formFields
    /\ Len(store) = Len(formFields)

\* the Live Value Map has an age whose numeric coercion is above 18
AgePresentAbove18 ==
    LET age == Get(values, "age") IN
    /\ age.k \notin {"undef", "null"}
    /\ age # EmptyStr
    /\ ToNumber(age).k = "num"
    /\ ToNumber(age).n > 18

\* C3: while the form is rendered, the contact control is rendered exactly
\* when the age entry is present and its numeric coercion is above 18, and
\* no control is rendered for a descriptor named contact of the list.
C3_ContactVisibility ==
    Ready => /\ RenderedContact <=> AgePresentAbove18
             /\ "contact" \notin RenderedFromList
             /\ ("contact" \in Rendered) <=> AgePresentAbove18

\* contact became visible through an edit of age
C3_Witness ==
    /\ Ready
    /\ last = "change"
    /\ Get(values, "age") = Str(s19)
    /\ "contact" \in Rendered

\* contact is hidden with a stored age of exactly 18
C3_WitnessHidden ==
    /\ Ready
    /\ Get(values, "age") = Num(18)
    /\ "contact" \notin Rendered

\* C4: whenever a submit was blocked by validation, every field with an
\* error is rendered and shows its message.
C4_EveryErrorIsShown ==
    (Ready /\ last = "resolve" /\ Blocked(errors))
        => \A nm \in DOMAIN errors : ShowsError(nm)

\* C5: reset leaves the Live Value Map equal to the derived defaults of the
\* current list, every interaction counter at zero, and starts neither a
\* fetch nor a REPLACE call.
C5_ResetRestoresDefaults ==
    [][ last' = "reset"
        => /\ values' = defaultValues(formFields, loaded)
           /\ DOMAIN values' = Names(formFields)
           /\ \A nm \in Names(formFields) \cup {"contact"} :
                 nm \notin DOMAIN interactionCount'
           /\ gets' = gets
           /\ fetching' = fetching
           /\ posts' = posts
           /\ requests' = requests ]_vars

\* reset ran after edits, with the contact control on screen
C5_Witness ==
    /\ last = "reset"
    /\ userEvents >= 2
    /\ RenderedContact
    /\ "contact" \notin DOMAIN values
    /\ interactionCount = EmptyMap

\* C6: the derived defaults have one entry per descriptor name; a checkbox
\* entry is the value coerced to boolean; any other entry is the value when
\* one is present (0 and false included) and "" only when it is absent.
C6_DefaultsKeepPresentValues ==
    pure.stage \in {"derived", "built", "parsed"}
        => /\ DOMAIN pure.defaults = Names(pure.fields)
           /\ \A i \in 1..Len(pure.fields) :
                 LET f == pure.fields[i] IN
                 pure.defaults[f.name] =
                    IF f.type = "checkbox" THEN Bool(Truthy(f.value))
                    ELSE IF f.value # Undef THEN f.value
                    ELSE EmptyStr

\* C7 as stated: one rule per descriptor name plus one contact rule, and the
\* rule under each descriptor's name is the one its own type and required
\* flag select.
C7_OneRulePerNamePlusContact ==
    pure.stage \in {"built", "parsed"}
        => /\ Cardinality(DOMAIN pure.schema)
                = Cardinality(Names(pure.fields)) + 1
           /\ \A i \in 1..Len(pure.fields) :
                 pure.schema[pure.fields[i].name] = Validator(pure.fields[i])

\* C7 amended: the ruleset has exactly the descriptor names and contact as
\* keys; the rule under contact is always the synthetic one, also when the
\* list has a descriptor named contact; the rule under any other name is the
\* one that descriptor's type, required flag and name select.
C7_SchemaKeysAndRules ==
    pure.stage \in {"built", "parsed"}
        => /\ DOMAIN pure.schema = Names(pure.fields) \cup {"contact"}
           /\ pure.schema["contact"] = ContactRule
           /\ \A i \in 1..Len(pure.fields) :
                 pure.fields[i].name # "contact"
                    => pure.schema[pure.fields[i].name]
                          = Validator(pure.fields[i])

\* a schema was built for a list with a descriptor named contact and one of
\* an unknown type
C7_Witness ==
    /\ pure.stage = "built"
    /\ \E i \in 1..Len(pure.fields) : pure.fields[i].name = "contact"
    /\ \E i \in 1..Len(pure.fields) : pure.fields[i].type = "date"

\* C8: the rule of a number descriptor accepts a value exactly when its
\* numeric coercion is in [1,120] (age) or [1,100] (other names), or, for a
\* descriptor that is not required, when the value is absent: undefined, or
\* the default derived for a descriptor without a value.
C8_NumberRuleAccepts ==
    pure.stage = "parsed"
        => \A i \in 1..Len(pure.fields) :
              LET f == pure.fields[i]
                  x == ToNumber(pure.input)
                  inRange == /\ x.k = "num"
                             /\ x.n >= 1
                             /\ x.n <= (IF f.name = "age" THEN 120 ELSE 100)
                  absent == \/ pure.input = Undef
                            \/ /\ f.value = Undef
                               /\ pure.input = pure.defaults[f.name]
              IN  (f.name = pure.name /\ f.type = "number"
                   /\ f.name # "contact")
                    => (pure.result.ok <=> (inRange \/ (~f.required /\ absent)))

\* C9: at most one REPLACE request is in flight.
C9_OneReplaceInFlight == Cardinality(requests) <= 1

\* C10: a failed REPLACE call emits exactly one error notification, leaves
\* the cached list and the Live Value Map alone, starts no refetch, and
\* leaves the submit control enabled.
C10_FailureIsRecoverable ==
    [][ last' = "error"
        => /\ toasts' = [toasts EXCEPT !.error = @ + 1]
           /\ formFields' = formFields
           /\ fetching' = fetching
           /\ gets' = gets
           /\ values' = values
           /\ queryStatus' = queryStatus
           /\ ~SubmitDisabled' ]_vars

\* the value an unmodified form is said to send back for a fetched
\* descriptor: a checkbox value as a boolean, any other value as fetched,
\* "" when there is none
CoercedFetched(field) ==
    IF field.type = "checkbox" THEN Bool(Truthy(field.value))
    ELSE IF field.value # Undef THEN field.value
    ELSE EmptyStr

\* the submit call was made on a form nobody changed since it was loaded
Unmodified(call) == call.vals = defaultValues(call.fields, TRUE)

\* C11: submitting the form with no field changed after load starts a
\* REPLACE call whose list equals the fetched list in length, order and
\* every attribute but value, each value being the coerced form of the
\* fetched one; the store then holds that list and a following GET
\* returns it.
C11_UnmodifiedRoundTrip ==
    [][ /\ (last' = "resolve" /\ validating # <<>>
            /\ Unmodified(Head(validating)))
           => LET call == Head(validating) IN
              /\ posts' = posts + 1
              /\ Cardinality(NewRequests) = 1
              /\ \A r \in NewRequests :
                    /\ Len(r.body) = Len(call.fields)
                    /\ \A i \in 1..Len(call.fields) :
                          r.body[i] = [call.fields[i] EXCEPT
                                !.value = CoercedFetched(call.fields[i])]
        /\ last' = "post"
           => \E r \in requests : ~r.applied /\ store' = r.body
        /\ last' = "fetchOk" => formFields' = store ]_vars
====
